---- MODULE Spec2Model ----
(***************************************************************************)
(* Inspector callback stubs (src/engine/inspector_stubs.cpp).              *)
(*                                                                         *)
(* The file defines nine extern "C" functions with empty bodies (one of    *)
(* them returns the constant 0).  The model puts them in their calling     *)
(* context: caller threads that own some objects in memory, pass pointers  *)
(* to them (or null) together with by-value arguments, and take back the   *)
(* result.  A call is three steps: Invoke (the caller builds the argument  *)
(* frame), the stub's body, and Resume (the caller takes the result).      *)
(***************************************************************************)
EXTENDS Integers, Sequences, FiniteSets

\* ------------------------------------------------------------ bounds
NumThreads == 2     \* caller threads
NumObjs == 2        \* caller-owned objects a pointer argument may name
MaxCalls == 3       \* invocations started in one behaviour

\* ------------------------------------------------------------ values
NULL == 0
Threads == 1..NumThreads
Addr == 1..NumObjs
Ptr == {NULL} \cup Addr
\* A live handle or none, for the pointer arguments that are not varied in full.
Handles == {NULL, 1}

\* The bytes of the message "{}".
Braces == <<123, 125>>
\* What the caller keeps in memory: object 1 is the message "{}"; every other
\* object is opaque to this file and holds one byte that tells it apart.
InitialMem == [a \in Addr |-> IF a = 1 THEN Braces ELSE <<a>>]

GroupIds == {-1, 0, 1}
\* 8 is the engine's error level; 99 is no level the engine defines.
Levels == {8, 99}
CallIds == {42}
\* 2 is the length of "{}"; 3 overruns it.
Lengths == {2, 3}

Stubs ==
    {"generateUniqueId", "runMessageLoopOnPause", "quitMessageLoopOnPause",
     "runIfWaitingForDebugger", "consoleAPIMessage", "ensureDefaultContextInGroup",
     "sendResponse", "sendNotification", "flushProtocolNotifications"}

VoidStubs == Stubs \ {"generateUniqueId"}

\* ------------------------------------------------------------ state
VARIABLES
    mem,      \* caller-owned memory: address -> the bytes of the object there
    out,      \* the output channel: the messages delivered so far
    pc,       \* per thread: "idle", "called", "returned" or "crashed"
    frame,    \* per thread: the arguments of the call in flight
    ret,      \* per thread: the value the call in flight returned
    acc,      \* per thread: the shared locations the call in flight touched
    alone,    \* per thread: no other thread was in a call during this one
    done,     \* the last call that ran alone and completed: stub and result
    ncalls,   \* invocations started
    mem0      \* the memory before the first call

vars == <<mem, out, pc, frame, ret, acc, alone, done, ncalls, mem0>>

\* Results: nothing yet, a void return, or an int64_t.
NoRet == [kind |-> "none", val |-> 0]
VoidRet == [kind |-> "void", val |-> 0]
IntRet(v) == [kind |-> "int", val |-> v]

NoFrame ==
    [fn |-> "none", self |-> NULL, data |-> NULL, contextGroupId |-> 0, level |-> 0,
     message |-> NULL, url |-> NULL, lineNumber |-> 0, columnNumber |-> 0,
     stackTrace |-> NULL, callId |-> 0, length |-> 0]

NoDone == [fn |-> "none", ret |-> NoRet]

\* The argument frames the callers build, by stub and parameter list.
\* generateUniqueId: every handle, null included, with a context pointer that is
\* null or the handle itself.
UniqueIdCalls ==
    UNION {{[NoFrame EXCEPT !.fn = "generateUniqueId", !.self = s, !.data = d] :
                d \in {NULL, s}} : s \in Ptr}

\* The three stubs that take (self, data, contextGroupId).
GroupCalls(fn) ==
    {[NoFrame EXCEPT !.fn = fn, !.self = 1, !.contextGroupId = g] : g \in GroupIds}

\* The two stubs, beside generateUniqueId, that take (self, data).
PlainCalls(fn) ==
    {[NoFrame EXCEPT !.fn = fn, !.self = s, !.data = s] : s \in Handles}

\* consoleAPIMessage: a known or unknown level, with the message view, the url
\* view and the stack trace all present (objects 1, NumObjs, NumObjs) or all null.
ConsoleCalls ==
    {[NoFrame EXCEPT !.fn = "consoleAPIMessage", !.self = 1, !.contextGroupId = -1,
                     !.level = l, !.message = m,
                     !.url = IF m = NULL THEN NULL ELSE NumObjs,
                     !.lineNumber = 1, !.columnNumber = 1,
                     !.stackTrace = IF m = NULL THEN NULL ELSE NumObjs] :
        l \in Levels, m \in Handles}

ResponseCalls ==
    {[NoFrame EXCEPT !.fn = "sendResponse", !.self = 1, !.callId = c,
                     !.message = m, !.length = n] :
        c \in CallIds, m \in Handles, n \in Lengths}

NotificationCalls ==
    {[NoFrame EXCEPT !.fn = "sendNotification", !.self = 1, !.message = 1, !.length = n] :
        n \in Lengths}

Calls ==
    UniqueIdCalls
    \cup GroupCalls("runMessageLoopOnPause")
    \cup PlainCalls("quitMessageLoopOnPause")
    \cup GroupCalls("runIfWaitingForDebugger")
    \cup ConsoleCalls
    \cup GroupCalls("ensureDefaultContextInGroup")
    \cup ResponseCalls
    \cup NotificationCalls
    \cup PlainCalls("flushProtocolNotifications")

Init ==
    /\ mem = InitialMem
    /\ mem0 = mem
    /\ out = << >>
    /\ pc = [t \in Threads |-> "idle"]
    /\ frame = [t \in Threads |-> NoFrame]
    /\ ret = [t \in Threads |-> NoRet]
    /\ acc = [t \in Threads |-> {}]
    /\ alone = [t \in Threads |-> FALSE]
    /\ done = NoDone
    /\ ncalls = 0

\* ------------------------------------------------------------ the caller
\* A thread calls one of the stubs; n is the count of invocations after it.
Call(t, n) ==
    /\ pc[t] = "idle"
    /\ \E f \in Calls : frame' = [frame EXCEPT ![t] = f]
    /\ pc' = [pc EXCEPT ![t] = "called"]
    /\ ncalls' = n
    /\ alone' = [u \in Threads |-> u = t /\ \A v \in Threads \ {t} : pc[v] = "idle"]
    /\ UNCHANGED <<mem, out, ret, acc, done, mem0>>

\* A thread calls one of the stubs, while the behaviour has calls left.
Invoke(t) == ncalls < MaxCalls /\ Call(t, ncalls + 1)

\* A thread calls one of the stubs; the call is not counted.
InvokeUncounted(t) == Call(t, ncalls)

\* The caller takes the result and the call is over; d is the record of the last
\* call that ran alone.
Complete(t, d) ==
    /\ pc[t] = "returned"
    /\ done' = d
    /\ pc' = [pc EXCEPT ![t] = "idle"]
    /\ frame' = [frame EXCEPT ![t] = NoFrame]
    /\ ret' = [ret EXCEPT ![t] = NoRet]
    /\ acc' = [acc EXCEPT ![t] = {}]
    /\ alone' = [alone EXCEPT ![t] = FALSE]
    /\ UNCHANGED <<mem, out, ncalls, mem0>>

\* The caller takes the result; a call that ran alone is recorded.
Resume(t) ==
    Complete(t, IF alone[t] THEN [fn |-> frame[t].fn, ret |-> ret[t]] ELSE done)

\* The caller takes the result; nothing is recorded.
ResumeUnrecorded(t) == Complete(t, done)

\* A location of the memory the threads share: an object, or the output channel.
MemLoc(a) == [obj |-> "mem", at |-> a]
OutLoc == [obj |-> "out", at |-> NULL]
Read(l) == [loc |-> l, kind |-> "read"]
Write(l) == [loc |-> l, kind |-> "write"]

\* Control is in the body of stub fn on thread t.
In(t, fn) == pc[t] = "called" /\ frame[t].fn = fn

\* ------------------------------------------------------------ the stubs
\* Variant: the handle's address serves as the id.
generateUniqueId_address(t) ==
    /\ In(t, "generateUniqueId")
    /\ ret' = [ret EXCEPT ![t] = IntRet(frame[t].self)]
    /\ pc' = [pc EXCEPT ![t] = "returned"]
    /\ UNCHANGED <<mem, out, frame, acc, alone, done, ncalls, mem0>>

\* Variant: a fresh id per call, from the number of calls made.
generateUniqueId_counter(t) ==
    /\ In(t, "generateUniqueId")
    /\ ret' = [ret EXCEPT ![t] = IntRet(ncalls)]
    /\ pc' = [pc EXCEPT ![t] = "returned"]
    /\ UNCHANGED <<mem, out, frame, acc, alone, done, ncalls, mem0>>

\* int64_t generateUniqueId(self, data) { return 0; }
generateUniqueId(t) ==
    /\ In(t, "generateUniqueId")
    /\ ret' = [ret EXCEPT ![t] = IntRet(0)]
    /\ pc' = [pc EXCEPT ![t] = "returned"]
    /\ UNCHANGED <<mem, out, frame, acc, alone, done, ncalls, mem0>>

\* Variant: the message loop runs until some thread has quit it.
runMessageLoopOnPause_blocks(t) ==
    /\ In(t, "runMessageLoopOnPause")
    /\ \E u \in Threads : pc[u] = "returned" /\ frame[u].fn = "quitMessageLoopOnPause"
    /\ ret' = [ret EXCEPT ![t] = VoidRet]
    /\ pc' = [pc EXCEPT ![t] = "returned"]
    /\ UNCHANGED <<mem, out, frame, acc, alone, done, ncalls, mem0>>

\* void runMessageLoopOnPause(self, data, contextGroupId) { }
runMessageLoopOnPause(t) ==
    /\ In(t, "runMessageLoopOnPause")
    /\ ret' = [ret EXCEPT ![t] = VoidRet]
    /\ pc' = [pc EXCEPT ![t] = "returned"]
    /\ UNCHANGED <<mem, out, frame, acc, alone, done, ncalls, mem0>>

\* void quitMessageLoopOnPause(self, data) { }
quitMessageLoopOnPause(t) ==
    /\ In(t, "quitMessageLoopOnPause")
    /\ ret' = [ret EXCEPT ![t] = VoidRet]
    /\ pc' = [pc EXCEPT ![t] = "returned"]
    /\ UNCHANGED <<mem, out, frame, acc, alone, done, ncalls, mem0>>

\* Variant: proceeds only once the group's default context has been ensured.
runIfWaitingForDebugger_waits(t) ==
    /\ In(t, "runIfWaitingForDebugger")
    /\ done.fn = "ensureDefaultContextInGroup"
    /\ ret' = [ret EXCEPT ![t] = VoidRet]
    /\ pc' = [pc EXCEPT ![t] = "returned"]
    /\ UNCHANGED <<mem, out, frame, acc, alone, done, ncalls, mem0>>

\* void runIfWaitingForDebugger(self, data, contextGroupId) { }
runIfWaitingForDebugger(t) ==
    /\ In(t, "runIfWaitingForDebugger")
    /\ ret' = [ret EXCEPT ![t] = VoidRet]
    /\ pc' = [pc EXCEPT ![t] = "returned"]
    /\ UNCHANGED <<mem, out, frame, acc, alone, done, ncalls, mem0>>

\* Variant: the message view is consumed (left empty) once forwarded.
consoleAPIMessage_consumes(t) ==
    /\ In(t, "consoleAPIMessage")
    /\ IF frame[t].message = NULL
          THEN UNCHANGED <<mem, acc>>
          ELSE /\ mem' = [mem EXCEPT ![frame[t].message] = << >>]
               /\ acc' = [acc EXCEPT ![t] = {Write(MemLoc(frame[t].message))}]
    /\ ret' = [ret EXCEPT ![t] = VoidRet]
    /\ pc' = [pc EXCEPT ![t] = "returned"]
    /\ UNCHANGED <<out, frame, alone, done, ncalls, mem0>>

\* void consoleAPIMessage(self, data, contextGroupId, level, message, url,
\*                        lineNumber, columnNumber, stackTrace) { }
consoleAPIMessage(t) ==
    /\ In(t, "consoleAPIMessage")
    /\ ret' = [ret EXCEPT ![t] = VoidRet]
    /\ pc' = [pc EXCEPT ![t] = "returned"]
    /\ UNCHANGED <<mem, out, frame, acc, alone, done, ncalls, mem0>>

\* void ensureDefaultContextInGroup(self, data, contextGroupId) { }
ensureDefaultContextInGroup(t) ==
    /\ In(t, "ensureDefaultContextInGroup")
    /\ ret' = [ret EXCEPT ![t] = VoidRet]
    /\ pc' = [pc EXCEPT ![t] = "returned"]
    /\ UNCHANGED <<mem, out, frame, acc, alone, done, ncalls, mem0>>

\* Variant: the response is delivered: length bytes of the message go to the
\* output channel; reading through a null pointer or past the buffer faults.
sendResponse_delivers(t) ==
    /\ In(t, "sendResponse")
    /\ IF frame[t].message = NULL \/ frame[t].length > Len(mem[frame[t].message])
          THEN /\ pc' = [pc EXCEPT ![t] = "crashed"]
               /\ UNCHANGED <<out, ret, acc>>
          ELSE /\ out' = Append(out, SubSeq(mem[frame[t].message], 1, frame[t].length))
               /\ acc' = [acc EXCEPT ![t] =
                            {Read(MemLoc(frame[t].message)), Write(OutLoc)}]
               /\ ret' = [ret EXCEPT ![t] = VoidRet]
               /\ pc' = [pc EXCEPT ![t] = "returned"]
    /\ UNCHANGED <<mem, frame, alone, done, ncalls, mem0>>

\* void sendResponse(self, data, callId, message, length) { }
sendResponse(t) ==
    /\ In(t, "sendResponse")
    /\ ret' = [ret EXCEPT ![t] = VoidRet]
    /\ pc' = [pc EXCEPT ![t] = "returned"]
    /\ UNCHANGED <<mem, out, frame, acc, alone, done, ncalls, mem0>>

\* Variant: the notification is queued on the channel, by pointer and length.
sendNotification_queues(t) ==
    /\ In(t, "sendNotification")
    /\ out' = Append(out, <<frame[t].message, frame[t].length>>)
    /\ acc' = [acc EXCEPT ![t] = {Write(OutLoc)}]
    /\ ret' = [ret EXCEPT ![t] = VoidRet]
    /\ pc' = [pc EXCEPT ![t] = "returned"]
    /\ UNCHANGED <<mem, frame, alone, done, ncalls, mem0>>

\* Variant: the arguments are validated by reading length bytes of the message.
sendNotification_reads(t) ==
    /\ In(t, "sendNotification")
    /\ IF frame[t].message = NULL \/ frame[t].length > Len(mem[frame[t].message])
          THEN /\ pc' = [pc EXCEPT ![t] = "crashed"]
               /\ UNCHANGED <<ret, acc>>
          ELSE /\ acc' = [acc EXCEPT ![t] = {Read(MemLoc(frame[t].message))}]
               /\ ret' = [ret EXCEPT ![t] = VoidRet]
               /\ pc' = [pc EXCEPT ![t] = "returned"]
    /\ UNCHANGED <<mem, out, frame, alone, done, ncalls, mem0>>

\* void sendNotification(self, data, msg, length) { }
sendNotification(t) ==
    /\ In(t, "sendNotification")
    /\ ret' = [ret EXCEPT ![t] = VoidRet]
    /\ pc' = [pc EXCEPT ![t] = "returned"]
    /\ UNCHANGED <<mem, out, frame, acc, alone, done, ncalls, mem0>>

\* Variant: the channel's pending notifications are drained.
flushProtocolNotifications_drains(t) ==
    /\ In(t, "flushProtocolNotifications")
    /\ out' = << >>
    /\ acc' = [acc EXCEPT ![t] = {Write(OutLoc)}]
    /\ ret' = [ret EXCEPT ![t] = VoidRet]
    /\ pc' = [pc EXCEPT ![t] = "returned"]
    /\ UNCHANGED <<mem, frame, alone, done, ncalls, mem0>>

\* void flushProtocolNotifications(self, data) { }
flushProtocolNotifications(t) ==
    /\ In(t, "flushProtocolNotifications")
    /\ ret' = [ret EXCEPT ![t] = VoidRet]
    /\ pc' = [pc EXCEPT ![t] = "returned"]
    /\ UNCHANGED <<mem, out, frame, acc, alone, done, ncalls, mem0>>

\* The body of whichever stub thread t is in.
Body(t) ==
    \/ generateUniqueId(t)
    \/ runMessageLoopOnPause(t)
    \/ quitMessageLoopOnPause(t)
    \/ runIfWaitingForDebugger(t)
    \/ consoleAPIMessage(t)
    \/ ensureDefaultContextInGroup(t)
    \/ sendResponse(t)
    \/ sendNotification(t)
    \/ flushProtocolNotifications(t)

Next ==
    \E t \in Threads :
        \/ Invoke(t)
        \/ Body(t)
        \/ Resume(t)

Spec == Init /\ [][Next]_vars

\* The same calls, any number of them, without the count and the record of calls.
FairNext ==
    \E t \in Threads :
        \/ InvokeUncounted(t)
        \/ Body(t)
        \/ ResumeUnrecorded(t)

\* A function that has been called runs: its body is not starved.
FairSpec == Init /\ [][FairNext]_vars /\ \A t \in Threads : WF_vars(Body(t))

\* ------------------------------------------------------------ properties
\* Thread t is back from stub fn and its caller has not yet taken the result.
Returned(t, fn) == pc[t] = "returned" /\ frame[t].fn = fn

\* The step takes thread t out of the body of a stub of the set S.
Leaves(t, S) == pc[t] = "called" /\ frame[t].fn \in S /\ pc'[t] # "called"

\* Memory and the output channel are as they were before the first call.
Untouched == mem = mem0 /\ out = << >>

\* Two calls in flight conflict: both touched one location, one of them writing.
Conflict(t, u) ==
    \E a \in acc[t], b \in acc[u] :
        a.loc = b.loc /\ (a.kind = "write" \/ b.kind = "write")

\* C1: every call of generateUniqueId, with any handle and any context pointer
\* (null included) and after any earlier calls, returns exactly 0.
C1_UniqueIdIsZero ==
    \A t \in Threads : Returned(t, "generateUniqueId") => ret[t] = IntRet(0)

\* A call with a live handle and a null context pointer has returned, after
\* earlier calls of other stubs.
C1_Witness ==
    \E t \in Threads :
        /\ Returned(t, "generateUniqueId")
        /\ frame[t].self # NULL /\ frame[t].data = NULL
        /\ done.fn \in VoidStubs
        /\ ncalls = MaxCalls

\* C2: a call of any of the eight void stubs completes and leaves every input as
\* it was: the memory behind the pointers (views, stack trace, message bytes,
\* self, data) and the by-value arguments, the length among them.
C2_VoidStubsLeaveInputs ==
    [][\A t \in Threads :
          Leaves(t, VoidStubs) =>
              /\ pc'[t] = "returned"
              /\ ret'[t] = VoidRet
              /\ mem' = mem
              /\ frame'[t] = frame[t]]_vars

\* consoleAPIMessage has returned from a call that passed a message view, a url
\* view and a stack trace, and sendNotification from one that passed a buffer.
C2_Witness ==
    \E t, u \in Threads :
        /\ Returned(t, "consoleAPIMessage")
        /\ frame[t].message # NULL /\ frame[t].url # NULL /\ frame[t].stackTrace # NULL
        /\ Returned(u, "sendNotification")
        /\ frame[u].message # NULL

\* C3: sendResponse and sendNotification return having delivered the message
\* nowhere: the output channel stays empty, and memory and every other thread's
\* call are as before the call.
C3_SendDeliversNothing ==
    [][\A t \in Threads :
          Leaves(t, {"sendResponse", "sendNotification"}) =>
              /\ pc'[t] = "returned"
              /\ out' = out /\ out' = << >>
              /\ mem' = mem
              /\ \A u \in Threads \ {t} :
                    pc'[u] = pc[u] /\ frame'[u] = frame[u] /\ ret'[u] = ret[u]]_vars

\* sendResponse has returned from the call (42, "{}", 2).
C3_Witness ==
    \E t \in Threads :
        /\ Returned(t, "sendResponse")
        /\ frame[t].callId = 42
        /\ frame[t].message # NULL
        /\ mem[frame[t].message] = Braces
        /\ frame[t].length = 2
        /\ out = << >>

\* C4: calling a stub again changes nothing: the result of a later call equals
\* that of an earlier call of the same stub, and the state after any number of
\* calls is the state before the first.
C4_RepeatIsIdempotent ==
    /\ Untouched
    /\ \A t \in Threads :
          (pc[t] = "returned" /\ done.fn = frame[t].fn) => ret[t] = done.ret

\* The last of MaxCalls calls has returned, from the stub that was called before.
C4_Witness ==
    \E t \in Threads :
        /\ pc[t] = "returned"
        /\ done.fn = frame[t].fn
        /\ ncalls = MaxCalls
        /\ \A u \in Threads \ {t} : pc[u] = "idle"

\* C5: calls on several threads, in any interleaving, touch no shared location, so
\* no two of them conflict, and a call that overlapped another returns what the
\* same stub returned when it ran alone.
C5_ConcurrentCallsAreSafe ==
    /\ \A t \in Threads : acc[t] = {}
    /\ \A t, u \in Threads : (t # u /\ pc[t] # "idle" /\ pc[u] # "idle") => ~Conflict(t, u)
    /\ \A t \in Threads :
          (pc[t] = "returned" /\ ~alone[t] /\ done.fn = frame[t].fn) => ret[t] = done.ret

\* Two threads are back from overlapping calls of the same stub on the same
\* handle, and that stub has run alone before.
C5_Witness ==
    \E t, u \in Threads :
        /\ t # u
        /\ pc[t] = "returned" /\ pc[u] = "returned"
        /\ ~alone[t] /\ ~alone[u]
        /\ frame[t].fn = frame[u].fn /\ frame[t].self = frame[u].self
        /\ frame[t].self # NULL
        /\ done.fn = frame[t].fn

\* C6: no stub fails, whatever the arguments (null pointers, a negative or zero
\* group id, an unknown level, a length that does not match the buffer): no call
\* ends in a fault, a returned call returned normally (nothing, or the 0 of
\* generateUniqueId), and no argument was dereferenced.
C6_NoStubFails ==
    \A t \in Threads :
        /\ pc[t] # "crashed"
        /\ pc[t] = "returned" =>
              /\ ret[t] = IF frame[t].fn = "generateUniqueId" THEN IntRet(0) ELSE VoidRet
              /\ acc[t] = {}

\* sendNotification is back from a call whose length overruns the buffer, and
\* consoleAPIMessage from one with an unknown level, null views and a negative
\* group id.
C6_Witness ==
    \E t, u \in Threads :
        /\ Returned(t, "sendNotification")
        /\ frame[t].length > Len(mem[frame[t].message])
        /\ Returned(u, "consoleAPIMessage")
        /\ frame[u].level = 99 /\ frame[u].message = NULL /\ frame[u].contextGroupId < 0

\* C7: every call returns: a thread in a stub is eventually back from it, with no
\* other call needed (runMessageLoopOnPause although nobody quits the loop).
C7_EveryCallReturns ==
    \A t \in Threads : (pc[t] = "called") ~> (pc[t] = "returned")

\* runMessageLoopOnPause has returned although no other thread made any call,
\* of quitMessageLoopOnPause or another stub, while it ran.
C7_Witness ==
    \E t \in Threads :
        /\ Returned(t, "runMessageLoopOnPause")
        /\ alone[t]
        /\ \A u \in Threads \ {t} : pc[u] = "idle"

\* C9: the stubs do not depend on each other or on the order of calls: whatever
\* was called before, the state is the initial one, a called stub can run, and
\* calls of one stub that followed different histories return the same.
C9_OrderIndependent ==
    /\ Untouched
    /\ \A t \in Threads : pc[t] = "called" => ENABLED Body(t)
    /\ \A t, u \in Threads :
          (pc[t] = "returned" /\ pc[u] = "returned" /\ frame[t].fn = frame[u].fn)
              => ret[t] = ret[u]

\* runIfWaitingForDebugger has been called with no call of
\* ensureDefaultContextInGroup before it, after a call of another stub.
C9_Witness ==
    \E t \in Threads :
        /\ In(t, "runIfWaitingForDebugger")
        /\ done.fn = "sendResponse"
        /\ ncalls = 2

\* C10: generateUniqueId does not tell calls apart: two calls return equal values,
\* on the same or on different handles and context pointers, overlapping or one
\* after the other.
C10_UniqueIdsAreEqual ==
    /\ \A t, u \in Threads :
          (Returned(t, "generateUniqueId") /\ Returned(u, "generateUniqueId"))
              => ret[t] = ret[u]
    /\ \A t \in Threads :
          (Returned(t, "generateUniqueId") /\ done.fn = "generateUniqueId")
              => ret[t] = done.ret

\* Two calls on different handles and context pointers have returned, after an
\* earlier call.
C10_Witness ==
    \E t, u \in Threads :
        /\ Returned(t, "generateUniqueId") /\ Returned(u, "generateUniqueId")
        /\ frame[t].self # frame[u].self
        /\ frame[t].data # frame[u].data
        /\ done.fn = "generateUniqueId"

====
